---- MODULE Spec2Model ----
(***************************************************************************)
(* Estimation scale and rollup engine of potensio/estimator                *)
(* (src/lib/estimation-utils.ts), the route handlers that keep the module  *)
(* versions of a project (src/app/api/projects/[id]/...), and the module   *)
(* generator generateModulesWithOpenAI with its requests, generateWithRetry*)
(* (src/unnamed/part_001).                                                 *)
(*                                                                         *)
(* Specifications: Spec (rollup), SpecNav (scale functions), SpecStore     *)
(* (concurrent requests on the version store), SpecApi (requests one after *)
(* the other, with any parameters), SpecGen (module generation),           *)
(* SpecActive (requests one after the other and the project read),        *)
(* SpecSummary (rollup and summary), SpecRetry and SpecRetryLive (one      *)
(* call of generateWithRetry).                                             *)
(*                                                                         *)
(* Numbers: hours and points are integers.  estimated_sprints and          *)
(* estimated_weeks are kept in TENTHS (the integer n stands for n/10), so  *)
(* Math.ceil(x * 10) / 10 is the integer Math.ceil(x * 10).                *)
(* An optional JavaScript field is a sequence of length 0 (undefined) or 1.*)
(***************************************************************************)
EXTENDS Integers, Sequences, FiniteSets, TLC

VARIABLES modulesData, level, teamVelocity, result, firstResult, runs,
          current, trail,
          moduleVersions, activeVersionId, handlers, responses, started,
          lastRollupCall,
          genPc, apiKey, modulesOverview, moduleIndex, detailedModules,
          failedModules, genResult,
          retryPc, maxRetries, attempt, requests, attemptLog, retryOutcome

vars == <<modulesData, level, teamVelocity, result, firstResult, runs,
          current, trail,
          moduleVersions, activeVersionId, handlers, responses, started,
          lastRollupCall,
          genPc, apiKey, modulesOverview, moduleIndex, detailedModules,
          failedModules, genResult,
          retryPc, maxRetries, attempt, requests, attemptLog, retryOutcome>>

rollupVars == <<modulesData, level, teamVelocity, result, firstResult, runs>>

navVars == <<current, trail>>

\* the ModuleVersion table, Project.activeVersionId, the request handlers
\* that are running, the responses they have sent and the arguments of the
\* latest rollup call made by a handler
storeVars == <<moduleVersions, activeVersionId, handlers, responses, started,
               lastRollupCall>>

\* one call of generateWithRetry: the loop, the requests it has started
\* (generateSingleRequest), what each attempt ended with, and what the call
\* returned or threw
retryVars == <<retryPc, maxRetries, attempt, requests, attemptLog, retryOutcome>>

\* one call of generateModulesWithOpenAI, and the requests of the generator
genVars == <<genPc, apiKey, modulesOverview, moduleIndex, detailedModules,
             failedModules, genResult, retryVars>>

----------------------------------------------------------------------------
(* Bounds of the model *)

\* modules + features + sub-features of an input tree
MaxNodes == 4

\* consecutive rollup runs on the same tree
MaxRuns == 2

\* consecutive navigator / adjuster calls
MaxSteps == 2

\* modules in the overview that the overview request returns
MaxOverviewModules == 4

\* requests served by the route handlers
MaxRequests == 3

----------------------------------------------------------------------------
(* Optional values *)

None == <<>>

Some(x) == <<x>>

IsSome(o) == o # <<>>

Range(seq) == {seq[i] : i \in 1..Len(seq)}

\* the element of a set that has one element
TheOne(S) == CHOOSE x \in S : TRUE

Get(o) == o[1]

----------------------------------------------------------------------------
(* The scale table *)

\* a table whose hours fall from label 1 to label 2
FIBONACCI_SCALE_HoursFall ==
  [p \in {1, 2, 3, 5, 8, 13, 21, 34, 55} |->
     [hours |-> CASE p = 1 -> 2 [] p = 2 -> 1 [] p = 3 -> 6 [] p = 5 -> 14
                  [] p = 8 -> 20 [] p = 13 -> 34 [] p = 21 -> 54
                  [] p = 34 -> 88 [] p = 55 -> 144]]

FIBONACCI_SCALE ==
  [p \in {1, 2, 3, 5, 8, 13, 21, 34, 55} |->
     [hours |-> CASE p = 1 -> 2 [] p = 2 -> 4 [] p = 3 -> 6 [] p = 5 -> 14
                  [] p = 8 -> 20 [] p = 13 -> 34 [] p = 21 -> 54
                  [] p = 34 -> 88 [] p = 55 -> 144]]

FIBONACCI_SEQUENCE == <<1, 2, 3, 5, 8, 13, 21, 34, 55>>

OptimisticLevel == {"optimistic", "realistic", "pessimistic"}

FIBONACCI_ADJUSTMENTS ==
  [l \in OptimisticLevel |->
     [pointsShift |-> CASE l = "optimistic" -> -1
                        [] l = "realistic" -> 0
                        [] l = "pessimistic" -> 1]]

\* FIBONACCI_SCALE[points] is undefined for a key that is not in the table,
\* and reading .hours of undefined throws a TypeError
fibonacciToHoursThrows(points) == points \notin DOMAIN FIBONACCI_SCALE

fibonacciToHours(points) == FIBONACCI_SCALE[points].hours

\* a lookup that answers 0 hours for a key that is not in the table
fibonacciToHoursCallDefaultsToZero(points) ==
  IF fibonacciToHoursThrows(points)
    THEN [threw |-> FALSE, hours |-> 0]
    ELSE [threw |-> FALSE, hours |-> fibonacciToHours(points)]

\* one call of fibonacciToHours as its caller sees it: the hours it returns,
\* or the TypeError it throws
fibonacciToHoursCall(points) ==
  IF fibonacciToHoursThrows(points)
    THEN [threw |-> TRUE, hours |-> 0]
    ELSE [threw |-> FALSE, hours |-> fibonacciToHours(points)]

\* Array.prototype.indexOf, 0-based, -1 when absent
indexOf(seq, x) ==
  IF \E i \in 1..Len(seq) : seq[i] = x
    THEN (CHOOSE i \in 1..Len(seq) :
            seq[i] = x /\ \A j \in 1..(i - 1) : seq[j] # x) - 1
    ELSE -1

getNextFibonacciWraps(cur) ==
  LET currentIndex == indexOf(FIBONACCI_SEQUENCE, cur)
  IN  IF currentIndex = -1 THEN cur
      ELSE FIBONACCI_SEQUENCE[((currentIndex + 1) % Len(FIBONACCI_SEQUENCE)) + 1]

getNextFibonacci(cur) ==
  LET currentIndex == indexOf(FIBONACCI_SEQUENCE, cur)
  IN  IF currentIndex = -1 \/ currentIndex = Len(FIBONACCI_SEQUENCE) - 1
        THEN cur
        ELSE FIBONACCI_SEQUENCE[(currentIndex + 1) + 1]

getPreviousFibonacciClampsEarly(cur) ==
  LET currentIndex == indexOf(FIBONACCI_SEQUENCE, cur)
  IN  IF currentIndex = -1 \/ currentIndex <= 1
        THEN cur
        ELSE FIBONACCI_SEQUENCE[(currentIndex - 1) + 1]

getPreviousFibonacci(cur) ==
  LET currentIndex == indexOf(FIBONACCI_SEQUENCE, cur)
  IN  IF currentIndex = -1 \/ currentIndex = 0
        THEN cur
        ELSE FIBONACCI_SEQUENCE[(currentIndex - 1) + 1]

\* FIBONACCI_ADJUSTMENTS[level] is undefined for a string that is not one of
\* the three levels, and reading .pointsShift of undefined throws a TypeError
adjustFibonacciPointsThrows(lvl) == lvl \notin DOMAIN FIBONACCI_ADJUSTMENTS

\* an adjuster that also moves the label under the realistic scenario
adjustFibonacciPointsShiftsRealistic(originalPoints, lvl) ==
  LET adjustment == FIBONACCI_ADJUSTMENTS[lvl]
  IN  IF adjustment.pointsShift >= 0
        THEN getNextFibonacci(originalPoints)
        ELSE getPreviousFibonacci(originalPoints)

adjustFibonacciPointsDoubleShift(originalPoints, lvl) ==
  LET adjustment == FIBONACCI_ADJUSTMENTS[lvl]
  IN  IF adjustment.pointsShift = 0 THEN originalPoints
      ELSE IF adjustment.pointsShift > 0
        THEN getNextFibonacci(getNextFibonacci(originalPoints))
        ELSE getPreviousFibonacci(getPreviousFibonacci(originalPoints))

adjustFibonacciPoints(originalPoints, lvl) ==
  LET adjustment == FIBONACCI_ADJUSTMENTS[lvl]
  IN  IF adjustment.pointsShift = 0 THEN originalPoints
      ELSE IF adjustment.pointsShift > 0
        THEN getNextFibonacci(originalPoints)
        ELSE getPreviousFibonacci(originalPoints)

----------------------------------------------------------------------------
(* Module trees: modulesData.modules[].features[].sub_features[]           *)

Ids == {"a", "b"}

\* fibonacci_points of a sub-feature estimation: 0 stands for every falsy
\* value (0, undefined: an estimation that only has tshirt_size), 4 is a
\* number that is no key of FIBONACCI_SCALE
TreePoints == {0, 1, 4, 8}

\* estimated_hours as stored with an estimation
StoredHours == {5, 9}

\* every estimation carries the tshirt_size the generator gave it
Estimations ==
  {[fibonacci_points |-> p, tshirt_size |-> "M", estimated_hours |-> 5] :
     p \in TreePoints}

SubFeatures ==
  {[id |-> i, estimation |-> e] :
     i \in Ids, e \in {None} \cup {Some(x) : x \in Estimations}}

FeatureEstimations ==
  {None, Some([fibonacci_points |-> 3, tshirt_size |-> "M", estimated_hours |-> 5])}

SubFeatureLists(n) == UNION {[1..k -> SubFeatures] : k \in 0..n}

Features(n) ==
  {[id |-> i, estimation |-> e, sub_features |-> s, calculated_hours |-> None] :
     i \in Ids, e \in FeatureEstimations,
     s \in {None} \cup {Some(l) : l \in SubFeatureLists(n - 1)}}

featureCost(f) ==
  1 + (IF IsSome(f.sub_features) THEN Len(Get(f.sub_features)) ELSE 0)

RECURSIVE FeatureLists(_)
FeatureLists(n) ==
  {<<>>} \cup
  (IF n >= 1
     THEN UNION {{<<f>> \o rest : rest \in FeatureLists(n - featureCost(f))} :
                   f \in Features(n)}
     ELSE {})

RECURSIVE featureListCost(_)
featureListCost(fs) ==
  IF fs = <<>> THEN 0 ELSE featureCost(Head(fs)) + featureListCost(Tail(fs))

Modules(n) ==
  {[features |-> fs, calculated_hours |-> None] :
     fs \in {None} \cup {Some(l) : l \in FeatureLists(n - 1)}}

moduleCost(m) ==
  1 + (IF IsSome(m.features) THEN featureListCost(Get(m.features)) ELSE 0)

RECURSIVE ModuleLists(_)
ModuleLists(n) ==
  {<<>>} \cup
  (IF n >= 1
     THEN UNION {{<<m>> \o rest : rest \in ModuleLists(n - moduleCost(m))} :
                   m \in Modules(n)}
     ELSE {})

ModuleTrees ==
  {[modules |-> ms] : ms \in {None} \cup {Some(l) : l \in ModuleLists(MaxNodes)}}

\* the tree with F(m, f, s, subFeature) in place of every sub-feature
MapSubFeatures(md, F(_, _, _, _)) ==
  [modules |->
     IF IsSome(md.modules)
       THEN Some([m \in 1..Len(Get(md.modules)) |->
              LET mod == Get(md.modules)[m]
              IN  [mod EXCEPT !.features =
                     IF IsSome(mod.features)
                       THEN Some([f \in 1..Len(Get(mod.features)) |->
                              LET feat == Get(mod.features)[f]
                              IN  [feat EXCEPT !.sub_features =
                                     IF IsSome(feat.sub_features)
                                       THEN Some([s \in 1..Len(Get(feat.sub_features)) |->
                                              F(m, f, s, Get(feat.sub_features)[s])])
                                       ELSE None]])
                       ELSE None]])
       ELSE None]

----------------------------------------------------------------------------
(* The rollup *)

DefaultTeamVelocity == 20

TeamVelocities == {3, DefaultTeamVelocity}

\* A quotient of two integers is kept as the fraction num / den (den > 0).
\* Math.ceil(q * 10): the value reported, in tenths
CeilTenths(q) == (10 * q.num + q.den - 1) \div q.den

\* const estimatedSprints = totalAdjustedPoints / teamVelocity
estimatedSprints(totalAdjustedPoints, velocity) ==
  [num |-> totalAdjustedPoints, den |-> velocity]

estimatedWeeksOneWeekSprints(sprints) == [num |-> sprints.num, den |-> sprints.den]

\* const estimatedWeeks = estimatedSprints * 2
estimatedWeeks(sprints) == [num |-> sprints.num * 2, den |-> sprints.den]

EmptyAcc ==
  [threw |-> FALSE,
   totalOriginalPoints |-> 0, totalAdjustedPoints |-> 0,
   totalOriginalHours |-> 0, totalAdjustedHours |-> 0,
   adjustments |-> [i \in {} |-> 0]]

\* node.estimation && node.estimation.fibonacci_points
hasFibonacciPoints(node) ==
  IsSome(node.estimation) /\ Get(node.estimation).fibonacci_points # 0

accumulateStoredHours(acc, node, lvl) ==
  LET originalPoints == Get(node.estimation).fibonacci_points
      adjustedPoints == adjustFibonacciPoints(originalPoints, lvl)
  IN  IF \/ adjustFibonacciPointsThrows(lvl)
         \/ fibonacciToHoursThrows(originalPoints)
         \/ fibonacciToHoursThrows(adjustedPoints)
        THEN [acc EXCEPT !.threw = TRUE]
        ELSE
          LET originalHours == Get(node.estimation).estimated_hours
              adjustedHours == fibonacciToHours(adjustedPoints)
              entry == [original_points |-> originalPoints,
                        adjusted_points |-> adjustedPoints,
                        original_hours |-> originalHours,
                        adjusted_hours |-> adjustedHours]
          IN  [threw |-> FALSE,
               totalOriginalPoints |-> acc.totalOriginalPoints + originalPoints,
               totalAdjustedPoints |-> acc.totalAdjustedPoints + adjustedPoints,
               totalOriginalHours |-> acc.totalOriginalHours + originalHours,
               totalAdjustedHours |-> acc.totalAdjustedHours + adjustedHours,
               adjustments |->
                 [i \in DOMAIN acc.adjustments \cup {node.id} |->
                    IF i = node.id THEN entry ELSE acc.adjustments[i]]]

\* the block run for a feature (lines 131-148) and for a sub-feature
\* (lines 155-172) that has fibonacci_points
accumulate(acc, node, lvl) ==
  LET originalPoints == Get(node.estimation).fibonacci_points
      adjustedPoints == adjustFibonacciPoints(originalPoints, lvl)
  IN  IF \/ adjustFibonacciPointsThrows(lvl)
         \/ fibonacciToHoursThrows(originalPoints)
         \/ fibonacciToHoursThrows(adjustedPoints)
        THEN [acc EXCEPT !.threw = TRUE]
        ELSE
          LET originalHours == fibonacciToHours(originalPoints)
              adjustedHours == fibonacciToHours(adjustedPoints)
              entry == [original_points |-> originalPoints,
                        adjusted_points |-> adjustedPoints,
                        original_hours |-> originalHours,
                        adjusted_hours |-> adjustedHours]
          IN  [threw |-> FALSE,
               totalOriginalPoints |-> acc.totalOriginalPoints + originalPoints,
               totalAdjustedPoints |-> acc.totalAdjustedPoints + adjustedPoints,
               totalOriginalHours |-> acc.totalOriginalHours + originalHours,
               totalAdjustedHours |-> acc.totalAdjustedHours + adjustedHours,
               adjustments |->
                 [i \in DOMAIN acc.adjustments \cup {node.id} |->
                    IF i = node.id THEN entry ELSE acc.adjustments[i]]]

\* for (const subFeature of feature.sub_features) { if (...) {...} }
RECURSIVE subFeaturesLoop(_, _, _, _)
subFeaturesLoop(acc, subs, i, lvl) ==
  IF acc.threw \/ i > Len(subs) THEN acc
  ELSE subFeaturesLoop(
         IF hasFibonacciPoints(subs[i]) THEN accumulate(acc, subs[i], lvl) ELSE acc,
         subs, i + 1, lvl)

\* iterating an undefined sub_features throws a TypeError
processSubFeaturesUnguarded(acc, feature, lvl) ==
  IF IsSome(feature.sub_features)
    THEN subFeaturesLoop(acc, Get(feature.sub_features), 1, lvl)
    ELSE [acc EXCEPT !.threw = TRUE]

\* if (feature.sub_features) { for ... }
processSubFeatures(acc, feature, lvl) ==
  IF IsSome(feature.sub_features)
    THEN subFeaturesLoop(acc, Get(feature.sub_features), 1, lvl)
    ELSE acc

\* the body of the loop over module.features
processFeature(acc, feature, lvl) ==
  LET own == IF hasFibonacciPoints(feature) THEN accumulate(acc, feature, lvl) ELSE acc
  IN  IF own.threw THEN own ELSE processSubFeatures(own, feature, lvl)

RECURSIVE featuresLoop(_, _, _, _)
featuresLoop(acc, features, i, lvl) ==
  IF acc.threw \/ i > Len(features) THEN acc
  ELSE featuresLoop(processFeature(acc, features[i], lvl), features, i + 1, lvl)

\* if (module.features) { for ... }
processModule(acc, mod, lvl) ==
  IF IsSome(mod.features)
    THEN featuresLoop(acc, Get(mod.features), 1, lvl)
    ELSE acc

RECURSIVE modulesLoop(_, _, _, _)
modulesLoop(acc, modules, i, lvl) ==
  IF acc.threw \/ i > Len(modules) THEN acc
  ELSE modulesLoop(processModule(acc, modules[i], lvl), modules, i + 1, lvl)

\* what the call returns (or the error it throws)
rollupResult(md, lvl, velocity) ==
  LET acc == IF IsSome(md.modules)
               THEN modulesLoop(EmptyAcc, Get(md.modules), 1, lvl)
               ELSE EmptyAcc
  IN  IF acc.threw
        THEN [status |-> "TypeError"]
        ELSE [status |-> "ok",
              scenario |-> lvl,
              team_velocity |-> velocity,
              adjustments |-> acc.adjustments,
              totals |->
                [original_points |-> acc.totalOriginalPoints,
                 adjusted_points |-> acc.totalAdjustedPoints,
                 original_hours |-> acc.totalOriginalHours,
                 adjusted_hours |-> acc.totalAdjustedHours,
                 estimated_sprints |->
                   CeilTenths(estimatedSprints(acc.totalAdjustedPoints, velocity)),
                 estimated_weeks |->
                   CeilTenths(estimatedWeeks(
                     estimatedSprints(acc.totalAdjustedPoints, velocity)))]]

\* a rollup that stores the adjusted points back into the tree it was given
calculateModuleEstimationWritesBack(md, lvl, velocity) ==
  [modulesData |->
     MapSubFeatures(md, LAMBDA m, f, s, sub :
       IF hasFibonacciPoints(sub)
         THEN [sub EXCEPT !.estimation =
                 Some([Get(@) EXCEPT !.fibonacci_points =
                         adjustFibonacciPoints(@, lvl)])]
         ELSE sub),
   result |-> rollupResult(md, lvl, velocity)]

\* the call: the tree object it was given, as the call leaves it, and the
\* value it returns.  The function only reads modulesData.
calculateModuleEstimation(md, lvl, velocity) ==
  [modulesData |-> md, result |-> rollupResult(md, lvl, velocity)]

----------------------------------------------------------------------------
(* State machine of the rollup: a caller holds a tree, a scenario and a    *)
(* team velocity and runs the rollup on them, any number of times.         *)

NoResult == [status |-> "none"]

\* the project the requests address and a project of somebody else
Projects == {"p1", "p2"}

\* connections on which requests arrive; a connection carries one request at
\* a time
Clients == {"c1", "c2"}

IdleHandler == [kind |-> "idle", pc |-> "idle"]

NoResponse ==
  [kind |-> "none", request |-> 0, status |-> 0, error |-> "none", version |-> None]

\* no version stored, no request running
StoreIdle ==
  /\ moduleVersions = {}
  /\ activeVersionId = [p \in Projects |-> None]
  /\ handlers = [c \in Clients |-> IdleHandler]
  /\ responses = [c \in Clients |-> NoResponse]
  /\ started = 0
  /\ lastRollupCall = None

\* the maxRetries parameter of generateWithRetry when the caller leaves it out
DefaultMaxRetries == 3

\* generateWithRetry is not running
RetryIdle ==
  /\ retryPc = "idle"
  /\ maxRetries = DefaultMaxRetries
  /\ attempt = 0
  /\ requests = <<>>
  /\ attemptLog = <<>>
  /\ retryOutcome = None

\* generateModulesWithOpenAI is not running
GenIdle ==
  /\ RetryIdle
  /\ genPc = "idle"
  /\ apiKey = FALSE
  /\ modulesOverview = None
  /\ moduleIndex = 0
  /\ detailedModules = <<>>
  /\ failedModules = <<>>
  /\ genResult = None

Init ==
  /\ modulesData \in ModuleTrees
  /\ level \in OptimisticLevel
  /\ teamVelocity \in TeamVelocities
  /\ result = NoResult
  /\ firstResult = NoResult
  /\ runs = 0
  /\ current = 1
  /\ trail = <<>>
  /\ StoreIdle
  /\ GenIdle

Rollup ==
  /\ runs < MaxRuns
  /\ LET out == calculateModuleEstimation(modulesData, level, teamVelocity)
     IN  /\ modulesData' = out.modulesData
         /\ result' = out.result
         /\ firstResult' = IF runs = 0 THEN out.result ELSE firstResult
  /\ runs' = runs + 1
  /\ UNCHANGED <<level, teamVelocity, navVars, storeVars, genVars>>

Next == Rollup

Spec == Init /\ [][Next]_vars

----------------------------------------------------------------------------
(* State machine of the scale navigator and scenario adjuster: a caller    *)
(* holds a label and applies next, previous or adjust to it, feeding each  *)
(* returned label to the following call.                                   *)

ScaleLabels == {FIBONACCI_SEQUENCE[i] : i \in 1..Len(FIBONACCI_SEQUENCE)}

\* numbers that are not in FIBONACCI_SEQUENCE
OtherLabels == {0, 4, 89}

InitNav ==
  /\ modulesData = [modules |-> None]
  /\ level = "realistic"
  /\ teamVelocity = DefaultTeamVelocity
  /\ result = NoResult
  /\ firstResult = NoResult
  /\ runs = 0
  /\ current \in ScaleLabels \cup OtherLabels
  /\ trail = <<>>
  /\ StoreIdle
  /\ GenIdle

CallNext ==
  /\ Len(trail) < MaxSteps
  /\ current' = getNextFibonacci(current)
  /\ trail' = Append(trail, [fn |-> "getNextFibonacci", lvl |-> "none",
                             arg |-> current, ret |-> current'])
  /\ UNCHANGED <<rollupVars, storeVars, genVars>>

CallPrevious ==
  /\ Len(trail) < MaxSteps
  /\ current' = getPreviousFibonacci(current)
  /\ trail' = Append(trail, [fn |-> "getPreviousFibonacci", lvl |-> "none",
                             arg |-> current, ret |-> current'])
  /\ UNCHANGED <<rollupVars, storeVars, genVars>>

CallAdjust ==
  /\ Len(trail) < MaxSteps
  /\ \E l \in OptimisticLevel :
       /\ current' = adjustFibonacciPoints(current, l)
       /\ trail' = Append(trail, [fn |-> "adjustFibonacciPoints", lvl |-> l,
                                  arg |-> current, ret |-> current'])
  /\ UNCHANGED <<rollupVars, storeVars, genVars>>

\* fibonacciToHours(current); the label held by the caller stays
CallToHours ==
  /\ Len(trail) < MaxSteps
  /\ trail' = Append(trail, [fn |-> "fibonacciToHours", lvl |-> "none",
                             arg |-> current,
                             ret |-> fibonacciToHoursCall(current)])
  /\ UNCHANGED <<current, rollupVars, storeVars, genVars>>

NextNav == CallNext \/ CallPrevious \/ CallAdjust \/ CallToHours

SpecNav == InitNav /\ [][NextNav]_vars

----------------------------------------------------------------------------
(* State machine of the version store: the route handlers that read and    *)
(* write the ModuleVersion table and Project.activeVersionId.              *)
(*   apply     POST /api/projects/[id]/adjust-estimation                   *)
(*   preview   GET  /api/projects/[id]/adjust-estimation                   *)
(*   create    POST /api/projects/[id]/module-versions                     *)
(*   update    PUT  /api/projects/[id]/module-versions/[versionId]         *)
(*   activate  PUT  /api/projects/[id]/module-versions/[versionId]/activate*)
(* All requests come from the signed-in owner of project "p1" and address  *)
(* "p1".  A handler runs from one await of a database call to the next in  *)
(* one step; handlers of different connections interleave at these points. *)
(* The read of a version and the write that follows it in update and       *)
(* activate are one step: no handler deletes a version, so nothing can     *)
(* come between them that changes their outcome.  A database call can      *)
(* fail; the model lets project.update fail, the one call whose failure    *)
(* leaves an earlier write of the same handler behind.                     *)

\* JavaScript values of a request parameter: undefined, a number, NaN, or a
\* string that is not empty
Undefined == [t |-> "undefined", n |-> 0]

Number(k) == [t |-> "number", n |-> k]

NaN == [t |-> "NaN", n |-> 0]

AString == [t |-> "string", n |-> 0]

\* the value is truthy
truthy(v) == v.t = "string" \/ (v.t = "number" /\ v.n # 0)

Digits == <<"0", "1", "2", "3", "4", "5", "6", "7", "8", "9">>

\* the number made of the digits of chars from position i on, up to the
\* first character that is no digit
RECURSIVE leadingDigits(_, _, _)
leadingDigits(chars, i, acc) ==
  IF i > Len(chars) \/ indexOf(Digits, chars[i]) = -1
    THEN acc
    ELSE leadingDigits(chars, i + 1,
           [count |-> acc.count + 1,
            value |-> 10 * acc.value + indexOf(Digits, chars[i])])

\* parseInt of a string given as the sequence of its characters: an optional
\* sign, then the leading digits; NaN when there is no digit
parseInt(chars) ==
  LET signed == Len(chars) >= 1 /\ chars[1] \in {"-", "+"}
      digits == leadingDigits(chars, IF signed THEN 2 ELSE 1,
                              [count |-> 0, value |-> 0])
  IN  IF digits.count = 0 THEN NaN
      ELSE IF signed /\ chars[1] = "-" THEN Number(0 - digits.value)
      ELSE Number(digits.value)

\* teamVelocity || 20 in the apply handler
RouteDefaultVelocity == 20

\* searchParams.get('teamVelocity') || '20' in the preview handler
QueryDefaultVelocity == <<"2", "0">>

\* searchParams.get('optimisticLevel') || 'realistic'
QueryDefaultLevel == "realistic"

\* Math.ceil((points / velocity) * 10) for a velocity that is not a positive
\* number: NaN, Infinity, or a number that is not positive
notPositiveQuotient(points, v) ==
  IF v.t # "number" THEN "NaN"
  ELSE IF v.n = 0 THEN (IF points = 0 THEN "NaN" ELSE "Infinity")
  ELSE IF points = 0 THEN "-0"
  ELSE Number(0 - ((10 * points) \div (0 - v.n)))

\* calculateModuleEstimation as a handler calls it: the velocity is whatever
\* JavaScript number the handler passes
calculateModuleEstimationCall(md, lvl, v) ==
  IF v.t = "number" /\ v.n > 0
    THEN calculateModuleEstimation(md, lvl, v.n).result
    ELSE LET r == calculateModuleEstimation(md, lvl, 1).result
         IN  IF r.status # "ok" THEN r
             ELSE [r EXCEPT
                     !.team_velocity = v,
                     !.totals.estimated_sprints =
                        notPositiveQuotient(r.totals.adjusted_points, v),
                     !.totals.estimated_weeks =
                        notPositiveQuotient(2 * r.totals.adjusted_points, v)]

\* a module tree with one module, one feature and one sub-feature
StoreTree(points) ==
  [modules |->
     Some(<<[features |->
               Some(<<[id |-> "a", estimation |-> None,
                       sub_features |->
                         Some(<<[id |-> "b",
                                 estimation |->
                                   Some([fibonacci_points |-> points,
                                         tshirt_size |-> "M",
                                         estimated_hours |-> 5])]>>),
                       calculated_hours |-> None]>>),
             calculated_hours |-> None]>>)]

\* ...(value && { field: value })
whenTruthy(value) == IF value # 0 THEN Some(value) ELSE None

\* where: { projectId }
versionsOf(versions, projectId) == {v \in versions : v.projectId = projectId}

\* findFirst({ where: { projectId }, orderBy: { version: 'desc' } })
findLatest(versions, projectId) ==
  IF versionsOf(versions, projectId) = {} THEN None
  ELSE Some(CHOOSE v \in versionsOf(versions, projectId) :
              \A w \in versionsOf(versions, projectId) : w.version <= v.version)

\* findFirst({ where: { id, projectId } })
findFirst(versions, id, projectId) ==
  IF \E v \in versions : v.id = id /\ v.projectId = projectId
    THEN Some(CHOOSE v \in versions : v.id = id /\ v.projectId = projectId)
    ELSE None

\* a numbering that leaves a gap after the latest version
nextVersionNumberLeavesGap(versions, projectId) ==
  IF IsSome(findLatest(versions, projectId))
    THEN Get(findLatest(versions, projectId)).version + 2
    ELSE 0 + 1

\* (latestVersion?.version || 0) + 1
nextVersionNumber(versions, projectId) ==
  IF IsSome(findLatest(versions, projectId))
    THEN Get(findLatest(versions, projectId)).version + 1
    ELSE 0 + 1

\* the id the database gives to a new row (@default(cuid())): one that no
\* row has
newId(versions) ==
  1 + (IF versions = {} THEN 0
       ELSE CHOOSE i \in {v.id : v \in versions} :
              \A v \in versions : v.id <= i)

\* the unique index ModuleVersion_projectId_version_key rejects the row
uniqueViolation(versions, projectId, version) ==
  \E v \in versions : v.projectId = projectId /\ v.version = version

\* a row as the create-version handler writes it
plainVersion(id, projectId, version, md) ==
  [id |-> id, projectId |-> projectId, version |-> version,
   modulesData |-> md,
   optimisticLevel |-> None, baseEstimationHours |-> None,
   adjustedEstimationHours |-> None, totalEstimatedSprints |-> None,
   teamVelocity |-> None]

\* an apply handler that overwrites the version it computed from
createAdjustedVersionInPlace(versions, h, id) ==
  (versions \ {h.moduleVersion}) \cup
    {[h.moduleVersion EXCEPT
        !.id = id,
        !.version = h.nextVersion,
        !.optimisticLevel = h.body.optimisticLevel]}

\* prisma.moduleVersion.create of the apply handler (lines 95-107): the
\* table with the new row, which carries the modulesData of the version the
\* estimation was computed from
createAdjustedVersion(versions, h, id) ==
  versions \cup
    {[id |-> id, projectId |-> "p1", version |-> h.nextVersion,
      modulesData |-> h.moduleVersion.modulesData,
      optimisticLevel |-> h.body.optimisticLevel,
      baseEstimationHours |-> whenTruthy(h.adjustedEstimation.totals.original_hours),
      adjustedEstimationHours |-> whenTruthy(h.adjustedEstimation.totals.adjusted_hours),
      totalEstimatedSprints |-> whenTruthy(h.adjustedEstimation.totals.estimated_sprints),
      teamVelocity |-> IF truthy(h.body.teamVelocity)
                         THEN Some(h.body.teamVelocity.n) ELSE None]}

\* prisma.moduleVersion.update({ where: { id }, data: { modulesData } })
updateVersionData(versions, id, md) ==
  {IF v.id = id THEN [v EXCEPT !.modulesData = md] ELSE v : v \in versions}

\* the rest of the module does not move while requests are served
StoreFrame == UNCHANGED <<rollupVars, navVars, genVars>>

\* the handler of c answers and ends
Respond(c, kind, request, status, error, version) ==
  /\ responses' = [responses EXCEPT ![c] =
                     [kind |-> kind, request |-> request, status |-> status,
                      error |-> error, version |-> version]]
  /\ handlers' = [handlers EXCEPT ![c] = IdleHandler]

\* the handler of c goes on to its next database call
Continue(c, h) ==
  /\ handlers' = [handlers EXCEPT ![c] = h]
  /\ UNCHANGED responses

\* a request arrives on a connection that carries none
Arrives(c) ==
  /\ handlers[c] = IdleHandler
  /\ started < MaxRequests
  /\ started' = started + 1

ValidLevels == {"optimistic", "realistic", "pessimistic"}

\* apply, up to the call of the rollup: validation of the body, the project
\* with its latest version, the version to adjust, the rollup (lines 13-83).
\* (x \in {e} gives the value of e the name x.)
ApplyReceived(c, body) ==
  /\ Arrives(c)
  /\ UNCHANGED <<moduleVersions, activeVersionId>>
  /\ StoreFrame
  /\ IF ~(IsSome(body.optimisticLevel) /\ Get(body.optimisticLevel) \in ValidLevels)
       THEN /\ Respond(c, "apply", started', 400, "Invalid optimistic level", None)
            /\ UNCHANGED lastRollupCall
     ELSE IF truthy(body.teamVelocity)
               /\ (body.teamVelocity.t # "number" \/ body.teamVelocity.n <= 0)
       THEN /\ Respond(c, "apply", started', 400,
                       "Team velocity must be a positive number", None)
            /\ UNCHANGED lastRollupCall
     ELSE
       \E moduleVersion \in {IF IsSome(body.versionId)
                               THEN findFirst(moduleVersions, Get(body.versionId), "p1")
                               ELSE findLatest(moduleVersions, "p1")} :
         IF ~IsSome(moduleVersion)
           THEN /\ Respond(c, "apply", started', 404, "Module version not found", None)
                /\ UNCHANGED lastRollupCall
           ELSE
             \E velocity \in {IF truthy(body.teamVelocity) THEN body.teamVelocity
                                ELSE Number(RouteDefaultVelocity)} :
               \E adjustedEstimation \in
                    {calculateModuleEstimationCall(Get(moduleVersion).modulesData,
                                                   Get(body.optimisticLevel), velocity)} :
                 /\ lastRollupCall' =
                      Some([endpoint |-> "apply",
                            level |-> Get(body.optimisticLevel),
                            teamVelocity |-> velocity,
                            supplied |-> body.teamVelocity # Undefined,
                            defaulted |-> ~truthy(body.teamVelocity)])
                 /\ IF adjustedEstimation.status # "ok"
                      THEN Respond(c, "apply", started', 500,
                                   "Failed to adjust estimation", None)
                      ELSE Continue(c, [kind |-> "apply", pc |-> "findLatest",
                                        request |-> started', body |-> body,
                                        moduleVersion |-> Get(moduleVersion),
                                        adjustedEstimation |-> adjustedEstimation,
                                        nextVersion |-> 0,
                                        newModuleVersion |-> None])

\* apply: the latest version number is read (lines 86-92)
ApplyFindLatest(c) ==
  /\ StoreFrame
  /\ handlers[c].kind = "apply" /\ handlers[c].pc = "findLatest"
  /\ Continue(c, [handlers[c] EXCEPT
                    !.pc = "create",
                    !.nextVersion = nextVersionNumber(moduleVersions, "p1")])
  /\ UNCHANGED <<moduleVersions, activeVersionId, started, lastRollupCall>>

\* apply: the new version is inserted (lines 95-107)
ApplyCreate(c) ==
  /\ StoreFrame
  /\ handlers[c].kind = "apply" /\ handlers[c].pc = "create"
  /\ IF uniqueViolation(moduleVersions, "p1", handlers[c].nextVersion)
       THEN /\ Respond(c, "apply", handlers[c].request, 500,
                       "Unique constraint failed on (projectId, version)", None)
            /\ UNCHANGED moduleVersions
       ELSE /\ moduleVersions' =
                 createAdjustedVersion(moduleVersions, handlers[c], newId(moduleVersions))
            /\ Continue(c, [handlers[c] EXCEPT
                              !.pc = "activate",
                              !.newModuleVersion = Some(newId(moduleVersions))])
  /\ UNCHANGED <<activeVersionId, started, lastRollupCall>>

\* apply: the pointer is moved to the new version and the handler answers
\* (lines 110-120), or project.update fails and the catch answers 500
ApplyActivate(c) ==
  /\ StoreFrame
  /\ handlers[c].kind = "apply" /\ handlers[c].pc = "activate"
  /\ \/ /\ activeVersionId' =
             [activeVersionId EXCEPT !["p1"] = handlers[c].newModuleVersion]
        /\ Respond(c, "apply", handlers[c].request, 200, "none",
                   handlers[c].newModuleVersion)
     \/ /\ UNCHANGED activeVersionId
        /\ Respond(c, "apply", handlers[c].request, 500, "project.update failed",
                   handlers[c].newModuleVersion)
  /\ UNCHANGED <<moduleVersions, started, lastRollupCall>>

\* the answer for a version that was found: 200 with the estimation, or the
\* 500 of the catch when the rollup throws
previewOf(moduleVersion, optimisticLevel, velocity, query) ==
  TheOne({[status |-> IF estimationPreview.status = "ok" THEN 200 ELSE 500,
           error |-> IF estimationPreview.status = "ok" THEN "none"
                     ELSE "Failed to get estimation preview",
           rollupCall |->
             Some([endpoint |-> "preview",
                   level |-> optimisticLevel,
                   teamVelocity |-> velocity,
                   supplied |-> IsSome(query.teamVelocity),
                   defaulted |-> ~(IsSome(query.teamVelocity)
                                     /\ Get(query.teamVelocity) # <<>>)])] :
          estimationPreview \in
            {calculateModuleEstimationCall(moduleVersion.modulesData,
                                           optimisticLevel, velocity)}})

\* what the preview handler computes and answers (lines 138-199)
previewResponse(versions, query) ==
  TheOne({IF ~IsSome(moduleVersion)
            THEN [status |-> 404, error |-> "Module version not found",
                  rollupCall |-> None]
            ELSE previewOf(Get(moduleVersion),
                           IF IsSome(query.optimisticLevel)
                                /\ Get(query.optimisticLevel) # ""
                             THEN Get(query.optimisticLevel) ELSE QueryDefaultLevel,
                           parsedVelocity, query) :
          moduleVersion \in {IF IsSome(query.versionId)
                               THEN findFirst(versions, Get(query.versionId), "p1")
                               ELSE findLatest(versions, "p1")},
          parsedVelocity \in
            {parseInt(IF IsSome(query.teamVelocity) /\ Get(query.teamVelocity) # <<>>
                        THEN Get(query.teamVelocity) ELSE QueryDefaultVelocity)}})

\* a preview handler that saves what it computed as a new active version
GETSavingThePreview(versions, active, response) ==
  IF response.status = 200
    THEN [moduleVersions |->
            versions \cup {plainVersion(newId(versions), "p1",
                                        nextVersionNumber(versions, "p1"),
                                        StoreTree(8))},
          activeVersionId |-> [active EXCEPT !["p1"] = Some(newId(versions))],
          response |-> response]
    ELSE [moduleVersions |-> versions, activeVersionId |-> active,
          response |-> response]

\* the preview handler: the table and the pointers as it leaves them, and
\* its answer.  The handler makes no database call that writes.
GET(versions, active, response) ==
  [moduleVersions |-> versions, activeVersionId |-> active, response |-> response]

\* preview: the whole handler (its database calls only read)
Preview(c, query) ==
  /\ Arrives(c)
  /\ StoreFrame
  /\ \E response \in {previewResponse(moduleVersions, query)} :
       \E out \in {GET(moduleVersions, activeVersionId, response)} :
         /\ moduleVersions' = out.moduleVersions
         /\ activeVersionId' = out.activeVersionId
         /\ Respond(c, "preview", started', out.response.status,
                    out.response.error, None)
         /\ lastRollupCall' = IF IsSome(out.response.rollupCall)
                                THEN out.response.rollupCall
                                ELSE lastRollupCall

\* create: validation of the body and the project (part_008 lines 94-131)
CreateReceived(c, body) ==
  /\ Arrives(c)
  /\ StoreFrame
  /\ IF ~IsSome(body.modulesData)
       THEN Respond(c, "create", started', 400, "modulesData is required", None)
       ELSE Continue(c, [kind |-> "create", pc |-> "findLatest",
                         request |-> started', body |-> body,
                         nextVersion |-> 0, newVersion |-> None])
  /\ UNCHANGED <<moduleVersions, activeVersionId, lastRollupCall>>

\* create: the latest version number is read (lines 134-140)
CreateFindLatest(c) ==
  /\ StoreFrame
  /\ handlers[c].kind = "create" /\ handlers[c].pc = "findLatest"
  /\ Continue(c, [handlers[c] EXCEPT
                    !.pc = "create",
                    !.nextVersion = nextVersionNumber(moduleVersions, "p1")])
  /\ UNCHANGED <<moduleVersions, activeVersionId, started, lastRollupCall>>

\* create: the new version is inserted (lines 143-151)
CreateCreate(c) ==
  /\ StoreFrame
  /\ handlers[c].kind = "create" /\ handlers[c].pc = "create"
  /\ IF uniqueViolation(moduleVersions, "p1", handlers[c].nextVersion)
       THEN /\ Respond(c, "create", handlers[c].request, 500,
                       "Unique constraint failed on (projectId, version)", None)
            /\ UNCHANGED moduleVersions
       ELSE /\ moduleVersions' =
                 moduleVersions \cup
                   {plainVersion(newId(moduleVersions), "p1", handlers[c].nextVersion,
                                 Get(handlers[c].body.modulesData))}
            /\ Continue(c, [handlers[c] EXCEPT
                              !.pc = "activate",
                              !.newVersion = Some(newId(moduleVersions))])
  /\ UNCHANGED <<activeVersionId, started, lastRollupCall>>

\* create: the pointer is moved to the new version and the handler answers
\* (lines 154-162), or project.update fails and the catch answers 500
CreateActivate(c) ==
  /\ StoreFrame
  /\ handlers[c].kind = "create" /\ handlers[c].pc = "activate"
  /\ \/ /\ activeVersionId' =
             [activeVersionId EXCEPT !["p1"] = handlers[c].newVersion]
        /\ Respond(c, "create", handlers[c].request, 200, "none",
                   handlers[c].newVersion)
     \/ /\ UNCHANGED activeVersionId
        /\ Respond(c, "create", handlers[c].request, 500, "project.update failed",
                   handlers[c].newVersion)
  /\ UNCHANGED <<moduleVersions, started, lastRollupCall>>

\* update: the whole handler
UpdateVersion(c, versionId, body) ==
  /\ Arrives(c)
  /\ StoreFrame
  /\ IF ~IsSome(body.modulesData)
       THEN /\ Respond(c, "update", started', 400, "modulesData is required", None)
            /\ UNCHANGED moduleVersions
     ELSE IF ~IsSome(findFirst(moduleVersions, versionId, "p1"))
       THEN /\ Respond(c, "update", started', 404,
                       "Version not found or unauthorized", None)
            /\ UNCHANGED moduleVersions
     ELSE /\ moduleVersions' =
               updateVersionData(moduleVersions, versionId, Get(body.modulesData))
          /\ Respond(c, "update", started', 200, "none", Some(versionId))
  /\ UNCHANGED <<activeVersionId, lastRollupCall>>

\* activate: the whole handler
ActivateVersion(c, versionId) ==
  /\ Arrives(c)
  /\ StoreFrame
  /\ IF ~IsSome(findFirst(moduleVersions, versionId, "p1"))
       THEN /\ Respond(c, "activate", started', 404, "Version not found", None)
            /\ UNCHANGED activeVersionId
       ELSE /\ activeVersionId' = [activeVersionId EXCEPT !["p1"] = Some(versionId)]
            /\ Respond(c, "activate", started', 200, "none", Some(versionId))
  /\ UNCHANGED <<moduleVersions, lastRollupCall>>

\* GET /api/projects/[id]: the project is read with moduleVersions ordered by
\* version desc, take 1, and activeVersion is project.moduleVersions[0] || null
activeVersionOfProject(versions, projectId) ==
  IF IsSome(findLatest(versions, projectId))
    THEN Some(Get(findLatest(versions, projectId)).id)
    ELSE None

\* get-project: the whole handler (one query that reads)
GetProject(c) ==
  /\ Arrives(c)
  /\ StoreFrame
  /\ \E activeVersion \in {activeVersionOfProject(moduleVersions, "p1")} :
       Respond(c, "project", started', 200, "none", activeVersion)
  /\ UNCHANGED <<moduleVersions, activeVersionId, lastRollupCall>>

\* ids a request can name: the rows of the table and one id that no row has
VersionIds == {v.id : v \in moduleVersions} \cup {newId(moduleVersions)}

\* project "p2" has one version; project "p1" has none yet, or one that is
\* active
InitStore ==
  /\ modulesData = [modules |-> None]
  /\ level = "realistic"
  /\ teamVelocity = DefaultTeamVelocity
  /\ result = NoResult
  /\ firstResult = NoResult
  /\ runs = 0
  /\ current = 1
  /\ trail = <<>>
  /\ GenIdle
  /\ \/ /\ moduleVersions = {plainVersion(1, "p2", 1, StoreTree(8))}
        /\ activeVersionId = [p \in Projects |-> IF p = "p2" THEN Some(1) ELSE None]
     \/ /\ moduleVersions = {plainVersion(1, "p2", 1, StoreTree(8)),
                             plainVersion(2, "p1", 1, StoreTree(8))}
        /\ activeVersionId = [p \in Projects |-> IF p = "p2" THEN Some(1) ELSE Some(2)]
  /\ handlers = [c \in Clients |-> IdleHandler]
  /\ responses = [c \in Clients |-> NoResponse]
  /\ started = 0
  /\ lastRollupCall = None

(* Concurrent requests with well-formed parameters *)

StoreApplyBodies ==
  {[optimisticLevel |-> Some("pessimistic"), teamVelocity |-> Undefined,
    versionId |-> v] : v \in {None} \cup {Some(i) : i \in VersionIds}}

StoreQueries ==
  {[optimisticLevel |-> None, teamVelocity |-> None, versionId |-> None]}

StoreTrees == {StoreTree(13)}

NextStore ==
  \E c \in Clients :
    \/ \E body \in StoreApplyBodies : ApplyReceived(c, body)
    \/ ApplyFindLatest(c)
    \/ ApplyCreate(c)
    \/ ApplyActivate(c)
    \/ \E query \in StoreQueries : Preview(c, query)
    \/ \E md \in StoreTrees : CreateReceived(c, [modulesData |-> Some(md)])
    \/ CreateFindLatest(c)
    \/ CreateCreate(c)
    \/ CreateActivate(c)
    \/ \E id \in VersionIds, md \in StoreTrees :
         UpdateVersion(c, id, [modulesData |-> Some(md)])
    \/ \E id \in VersionIds : ActivateVersion(c, id)

SpecStore == InitStore /\ [][NextStore]_vars

(* Requests one after the other, with any parameters *)

ApiLevels == {None, Some("optimistic"), Some("Pessimistic")}

ApiApplyBodies ==
  {[optimisticLevel |-> l, teamVelocity |-> t, versionId |-> v] :
     l \in ApiLevels,
     t \in {Undefined, Number(0), Number(0 - 3), Number(3), AString},
     v \in {None} \cup {Some(i) : i \in VersionIds}}

ApiQueries ==
  {[optimisticLevel |-> l, teamVelocity |-> t, versionId |-> v] :
     l \in ApiLevels,
     t \in {None, Some(<<"0">>), Some(<<"-", "3">>), Some(<<"3">>),
            Some(<<"a", "b", "c">>)},
     v \in {None} \cup {Some(i) : i \in VersionIds}}

\* trees whose label is in the scale (8) and is not (4), and a tree without
\* modules
ApiTrees == {StoreTree(8), StoreTree(4), [modules |-> None]}

ApiBodies == {[modulesData |-> None]} \cup {[modulesData |-> Some(md)] : md \in ApiTrees}

NextApi ==
  \/ \E body \in ApiApplyBodies : ApplyReceived("c1", body)
  \/ ApplyFindLatest("c1")
  \/ ApplyCreate("c1")
  \/ ApplyActivate("c1")
  \/ \E query \in ApiQueries : Preview("c1", query)
  \/ \E body \in ApiBodies : CreateReceived("c1", body)
  \/ CreateFindLatest("c1")
  \/ CreateCreate("c1")
  \/ CreateActivate("c1")
  \/ \E id \in VersionIds, body \in ApiBodies : UpdateVersion("c1", id, body)
  \/ \E id \in VersionIds : ActivateVersion("c1", id)

SpecApi == InitStore /\ [][NextApi]_vars

(* Requests one after the other with well-formed parameters, and the       *)
(* project read in between                                                 *)

NextActive ==
  \/ \E body \in StoreApplyBodies : ApplyReceived("c1", body)
  \/ ApplyFindLatest("c1")
  \/ ApplyCreate("c1")
  \/ ApplyActivate("c1")
  \/ \E md \in StoreTrees : CreateReceived("c1", [modulesData |-> Some(md)])
  \/ CreateFindLatest("c1")
  \/ CreateCreate("c1")
  \/ CreateActivate("c1")
  \/ \E id \in VersionIds : ActivateVersion("c1", id)
  \/ GetProject("c1")

SpecActive == InitStore /\ [][NextActive]_vars

----------------------------------------------------------------------------
(* State machine of one call of generateModulesWithOpenAI                  *)
(* (src/unnamed/part_001): the overview request, then one detail request   *)
(* per module of the overview.  A request (generateModulesOverview,        *)
(* generateModuleDetails) either returns the JSON object the model         *)
(* answered, of the format its prompt prescribes, or throws.               *)

\* an entry of modulesOverview.modules as the model answers it
overviewModule(k) == [id |-> <<"module", k>>, name |-> <<"Module Name", k>>]

\* what a successful overview request can return: 0 or more modules
OverviewResponses ==
  {[modules |-> [k \in 1..n |-> overviewModule(k)]] : n \in 0..MaxOverviewModules}

\* the overview used when the overview request throws (lines 732-753)
fallbackOverview ==
  [modules |-> <<[id |-> <<"module", 1>>, name |-> <<"Core System", 1>>],
                 [id |-> <<"module", 2>>, name |-> <<"User Management", 2>>],
                 [id |-> <<"module", 3>>, name |-> <<"Data Management", 3>>]>>]

\* what a successful detail request can return for a module: a module with
\* features, or a module whose features list is empty
DetailResponses(module) ==
  {[id |-> module.id, name |-> module.name,
    features |-> <<[id |-> <<module.id, "feature-001">>,
                    sub_features |-> <<[id |-> <<module.id, "sub-001">>]>>]>>,
    technical_notes |-> "generated"],
   [id |-> module.id, name |-> module.name,
    features |-> <<>>,
    technical_notes |-> "generated"]}

\* a replacement module that has no feature
fallbackModuleWithoutFeatures(module) ==
  [id |-> module.id, name |-> module.name,
   features |-> <<>>,
   technical_notes |-> "Details generation failed - comprehensive fallback structure provided"]

\* the module pushed when the detail request of a module throws
\* (lines 786-826)
fallbackModule(module) ==
  [id |-> module.id, name |-> module.name,
   features |-> <<[id |-> <<module.id, "basic_001">>,
                   sub_features |-> <<[id |-> <<module.id, "sub_001">>]>>],
                  [id |-> <<module.id, "basic_002">>,
                   sub_features |-> <<[id |-> <<module.id, "sub_002">>]>>]>>,
   technical_notes |-> "Details generation failed - comprehensive fallback structure provided"]

\* the value returned after the loop (lines 830-840)
generationResult(detailed, failed) ==
  [modules |-> detailed,
   metadata |-> [total_modules |-> Len(detailed),
                 failed_modules |-> failed,
                 generation_status |-> IF Len(failed) > 0 THEN "partial_success"
                                                        ELSE "success",
                 fallback_used |-> Len(failed) > 0]]

\* the value returned by the outer catch (lines 850-920)
ultimateFallback ==
  [modules |->
     <<[id |-> <<"fallback", 1>>, name |-> <<"fallback", 1>>,
        features |-> <<[id |-> <<<<"fallback", 1>>, "f001">>,
                        sub_features |-> <<[id |-> <<<<"fallback", 1>>, "sf001">>]>>]>>,
        technical_notes |-> "Fallback structure - requires manual refinement"],
       [id |-> <<"fallback", 2>>, name |-> <<"fallback", 2>>,
        features |-> <<[id |-> <<<<"fallback", 2>>, "f001">>,
                        sub_features |-> <<[id |-> <<<<"fallback", 2>>, "sf001">>]>>]>>,
        technical_notes |-> "Fallback structure - requires manual refinement"]>>,
   metadata |-> [total_modules |-> 2,
                 failed_modules |-> <<>>,
                 generation_status |-> "fallback",
                 fallback_used |-> TRUE]]

InitGen ==
  /\ modulesData = [modules |-> None]
  /\ level = "realistic"
  /\ teamVelocity = DefaultTeamVelocity
  /\ result = NoResult
  /\ firstResult = NoResult
  /\ runs = 0
  /\ current = 1
  /\ trail = <<>>
  /\ StoreIdle
  /\ RetryIdle
  /\ genPc = "called"
  /\ apiKey \in BOOLEAN
  /\ modulesOverview = None
  /\ moduleIndex = 0
  /\ detailedModules = <<>>
  /\ failedModules = <<>>
  /\ genResult = None

\* the function is entered: without OPENAI_API_KEY it throws into its outer
\* catch, otherwise it sends the overview request
CheckApiKey ==
  /\ genPc = "called"
  /\ IF ~apiKey
       THEN /\ genPc' = "returned"
            /\ genResult' = Some(ultimateFallback)
       ELSE /\ genPc' = "overview"
            /\ UNCHANGED genResult
  /\ UNCHANGED <<apiKey, modulesOverview, moduleIndex, detailedModules,
                 failedModules, rollupVars, navVars, storeVars, retryVars>>

\* the overview is there (lines 757-759): without modules the function
\* throws into its outer catch, otherwise the loop starts at i = 0
OverviewObtained(overview) ==
  /\ modulesOverview' = Some(overview)
  /\ IF Len(overview.modules) = 0
       THEN /\ genPc' = "returned"
            /\ genResult' = Some(ultimateFallback)
       ELSE /\ genPc' = "details"
            /\ UNCHANGED genResult
  /\ UNCHANGED <<apiKey, moduleIndex, detailedModules, failedModules,
                 rollupVars, navVars, storeVars, retryVars>>

\* generateModulesOverview returns
OverviewSucceeds ==
  /\ genPc = "overview"
  /\ \E overview \in OverviewResponses : OverviewObtained(overview)

\* generateModulesOverview throws
OverviewFails ==
  /\ genPc = "overview"
  /\ OverviewObtained(fallbackOverview)

\* the end of an iteration of the loop: i++, and after the last module the
\* result is built and returned
ModulePushed(detailed, failed) ==
  /\ detailedModules' = detailed
  /\ failedModules' = failed
  /\ moduleIndex' = moduleIndex + 1
  /\ IF moduleIndex + 1 < Len(Get(modulesOverview).modules)
       THEN UNCHANGED <<genPc, genResult>>
       ELSE /\ genPc' = "returned"
            /\ genResult' = Some(generationResult(detailed, failed))
  /\ UNCHANGED <<apiKey, modulesOverview, rollupVars, navVars, storeVars, retryVars>>

\* generateModuleDetails of modules[i] returns
DetailSucceeds ==
  /\ genPc = "details"
  /\ \E detailedModule \in DetailResponses(Get(modulesOverview).modules[moduleIndex + 1]) :
       ModulePushed(Append(detailedModules, detailedModule), failedModules)

\* generateModuleDetails of modules[i] throws
DetailFails ==
  /\ genPc = "details"
  /\ LET module == Get(modulesOverview).modules[moduleIndex + 1]
     IN  ModulePushed(Append(detailedModules, fallbackModule(module)),
                      Append(failedModules, module.name))

NextGen ==
  CheckApiKey \/ OverviewSucceeds \/ OverviewFails \/ DetailSucceeds \/ DetailFails

SpecGen == InitGen /\ [][NextGen]_vars

----------------------------------------------------------------------------
(* Properties of the version store (checked under SpecStore and SpecApi)   *)

\* the handler of c answers in this step, and the answer is of this kind
Answers(c, kind) == responses'[c] # responses[c] /\ responses'[c].kind = kind

\* C11: a preview request, with any parameters and whether it is answered
\* with success or with an error, creates no version, changes no version and
\* leaves the active-version pointers as they are.
C11_PreviewWritesNothing ==
  [][\A c \in Clients :
       Answers(c, "preview") => UNCHANGED <<moduleVersions, activeVersionId>>]_vars

\* a preview of a project that has an active version was answered with
\* success
C11_Witness ==
  /\ responses["c1"].kind = "preview"
  /\ responses["c1"].status = 200
  /\ IsSome(activeVersionId["p1"])
  /\ started >= 2

\* C12: an apply request that is answered with success has added exactly one
\* version to the project, none of its steps changes or removes a version
\* that existed before the step (the version it computed from included), and
\* at its answer the active-version pointer of the project is the id of the
\* version it added.
C12_ApplyAddsOneVersionAndActivatesIt ==
  [][\A c \in Clients :
       (handlers'[c] # handlers[c]
          /\ (handlers[c].kind = "apply" \/ handlers'[c].kind = "apply")) =>
         /\ \A v \in moduleVersions : v \in moduleVersions'
         /\ (handlers[c].pc = "create" /\ handlers'[c].kind = "apply") =>
              /\ Cardinality(moduleVersions' \ moduleVersions) = 1
              /\ \A v \in moduleVersions' \ moduleVersions :
                   /\ handlers'[c].newModuleVersion = Some(v.id)
                   /\ v.projectId = "p1"
                   /\ v.id \notin {w.id : w \in moduleVersions}
         /\ ~(handlers[c].pc = "create" /\ handlers'[c].kind = "apply") =>
              moduleVersions' = moduleVersions
         /\ (Answers(c, "apply") /\ responses'[c].status = 200) =>
              /\ IsSome(handlers[c].newModuleVersion)
              /\ responses'[c].version = handlers[c].newModuleVersion
              /\ activeVersionId'["p1"] = handlers[c].newModuleVersion
              /\ \E v \in moduleVersions' :
                   v.id = Get(handlers[c].newModuleVersion) /\ v.projectId = "p1"]_vars

\* an apply was answered with success: the project has the version it
\* computed from and the new one, and the pointer is at the new one
C12_Witness ==
  /\ responses["c1"].kind = "apply"
  /\ responses["c1"].status = 200
  /\ activeVersionId["p1"] = responses["c1"].version
  /\ Cardinality(versionsOf(moduleVersions, "p1")) >= 2
  /\ \E v \in moduleVersions :
       v.id = Get(responses["c1"].version) /\ v.optimisticLevel = Some("pessimistic")

\* C13: a version that exists keeps its modulesData in every later state,
\* whatever requests are served.
C13_VersionsImmutable ==
  [][\A v \in moduleVersions :
       \E w \in moduleVersions' : w.id = v.id /\ w.modulesData = v.modulesData]_vars

\* the pointer of a project that has a version is set and names exactly one
\* version of that project
PointerNamesOwnVersion(p) ==
  (versionsOf(moduleVersions, p) # {}) =>
    /\ IsSome(activeVersionId[p])
    /\ Cardinality({v \in versionsOf(moduleVersions, p) :
                      v.id = Get(activeVersionId[p])}) = 1

\* C14: in every reachable state a project that has at least one version has
\* its active-version pointer set to exactly one version of its own; an
\* activate request for a version id that is not of the project is rejected
\* and leaves the pointer as it is.
C14_PointerAlwaysNamesOwnVersion ==
  /\ [](\A p \in Projects : PointerNamesOwnVersion(p))
  /\ [][\A c \in Clients :
          Answers(c, "activate") =>
            IF responses'[c].status = 200
              THEN \E v \in versionsOf(moduleVersions, "p1") :
                     responses'[c].version = Some(v.id)
              ELSE UNCHANGED activeVersionId]_vars

\* answers of an apply request that say the request was malformed, named no
\* version of the project, had a tree the rollup throws on, or met an outage
\* of the database
RejectionsAndOutages ==
  {"Invalid optimistic level", "Team velocity must be a positive number",
   "Module version not found", "Failed to adjust estimation",
   "project.update failed"}

\* C15: however two apply requests on the same project interleave, each of
\* them completes with a new version of its own, none fails, and the pointer
\* is the version of the request whose pointer update came last.
C15_ConcurrentAppliesBothSucceed ==
  /\ [](\A c \in Clients :
          (responses[c].kind = "apply"
             /\ responses[c].error \notin RejectionsAndOutages) =>
            /\ responses[c].status = 200
            /\ \E v \in versionsOf(moduleVersions, "p1") :
                 responses[c].version = Some(v.id)
            /\ \A d \in Clients \ {c} :
                 responses[d].kind = "apply" /\ responses[d].status = 200 =>
                   responses[d].version # responses[c].version)
  /\ [][\A c \in Clients :
          (Answers(c, "apply") /\ responses'[c].status = 200) =>
            activeVersionId'["p1"] = responses'[c].version]_vars

\* C16: apply and preview reject a scenario that is not exactly one of the
\* three levels before the rollup is called: the rollup is never called with
\* another scenario.
C16_RollupOnlyWithValidScenario ==
  IsSome(lastRollupCall) => Get(lastRollupCall).level \in OptimisticLevel

\* C17: apply and preview call the rollup only with a positive number as
\* team velocity, and the default 20 stands in only for a velocity that the
\* request does not carry.
C17_RollupOnlyWithPositiveVelocity ==
  IsSome(lastRollupCall) =>
    /\ Get(lastRollupCall).teamVelocity.t = "number"
    /\ Get(lastRollupCall).teamVelocity.n > 0
    /\ Get(lastRollupCall).defaulted => ~Get(lastRollupCall).supplied

----------------------------------------------------------------------------
(* Properties of the generator (checked under SpecGen)                     *)

C20_WitnessEmptyOverview ==
  /\ genPc = "returned"
  /\ modulesOverview = Some([modules |-> <<>>])
  /\ genResult = Some(ultimateFallback)

----------------------------------------------------------------------------
(* Properties of the navigator and the adjuster (checked under SpecNav)    *)

\* 1-based position of a label of the scale in the scale sequence
ScalePosition(label) == CHOOSE i \in 1..Len(FIBONACCI_SEQUENCE) : FIBONACCI_SEQUENCE[i] = label

LastPosition == Len(FIBONACCI_SEQUENCE)

\* the label one position later, the last label and any label that is not
\* in the sequence being kept
OneLater(label) ==
  IF label \in ScaleLabels /\ ScalePosition(label) < LastPosition
    THEN FIBONACCI_SEQUENCE[ScalePosition(label) + 1]
    ELSE label

\* the label one position earlier, the first label and any label that is
\* not in the sequence being kept
OneEarlier(label) ==
  IF label \in ScaleLabels /\ ScalePosition(label) > 1
    THEN FIBONACCI_SEQUENCE[ScalePosition(label) - 1]
    ELSE label

\* C5: adjust returns the label itself for realistic, the label one position
\* earlier for optimistic and one position later for pessimistic; the shift is
\* never more than one position, and the top label under pessimistic and the
\* bottom label under optimistic are returned unchanged.
C5_AdjustShiftsOneStep ==
  \A k \in 1..Len(trail) :
    trail[k].fn = "adjustFibonacciPoints" =>
      /\ trail[k].lvl = "realistic" => trail[k].ret = trail[k].arg
      /\ trail[k].lvl = "optimistic" => trail[k].ret = OneEarlier(trail[k].arg)
      /\ trail[k].lvl = "pessimistic" => trail[k].ret = OneLater(trail[k].arg)
      /\ (trail[k].lvl = "pessimistic"
            /\ trail[k].arg = FIBONACCI_SEQUENCE[LastPosition])
           => trail[k].ret = trail[k].arg
      /\ (trail[k].lvl = "optimistic" /\ trail[k].arg = FIBONACCI_SEQUENCE[1])
           => trail[k].ret = trail[k].arg
      /\ (trail[k].arg \in ScaleLabels) =>
           /\ trail[k].ret \in ScaleLabels
           /\ ScalePosition(trail[k].ret) - ScalePosition(trail[k].arg) \in {-1, 0, 1}

\* a pessimistic adjust of a label two positions below the top has moved one
\* position, and a second pessimistic adjust has moved to the top
C5_Witness ==
  /\ Len(trail) >= 2
  /\ trail[1].fn = "adjustFibonacciPoints" /\ trail[1].lvl = "pessimistic"
  /\ trail[1].arg = 21 /\ trail[1].ret = 34
  /\ trail[2].fn = "adjustFibonacciPoints" /\ trail[2].lvl = "pessimistic"
  /\ trail[2].ret = 55

\* C6: next returns the label one position later and previous the label one
\* position earlier; next of the last label, previous of the first label and
\* either function on a label that is not in the sequence return the input.
C6_NextPreviousClamp ==
  \A k \in 1..Len(trail) :
    /\ trail[k].fn = "getNextFibonacci" =>
         /\ trail[k].ret = OneLater(trail[k].arg)
         /\ trail[k].arg \notin ScaleLabels => trail[k].ret = trail[k].arg
         /\ trail[k].arg = FIBONACCI_SEQUENCE[LastPosition] => trail[k].ret = trail[k].arg
    /\ trail[k].fn = "getPreviousFibonacci" =>
         /\ trail[k].ret = OneEarlier(trail[k].arg)
         /\ trail[k].arg \notin ScaleLabels => trail[k].ret = trail[k].arg
         /\ trail[k].arg = FIBONACCI_SEQUENCE[1] => trail[k].ret = trail[k].arg

\* next has reached the last label and a second next has stayed there
C6_Witness ==
  /\ Len(trail) >= 2
  /\ trail[1].fn = "getNextFibonacci" /\ trail[1].arg = 34 /\ trail[1].ret = 55
  /\ trail[2].fn = "getNextFibonacci" /\ trail[2].arg = 55 /\ trail[2].ret = 55

\* C7: previous(next(label)) = label for every label of the scale but the
\* last, next(previous(label)) = label for every label but the first; next is
\* the identity at the last label and previous at the first.
C7_RoundTrip ==
  /\ \A k \in 1..(Len(trail) - 1) :
       /\ (/\ trail[k].fn = "getNextFibonacci"
           /\ trail[k + 1].fn = "getPreviousFibonacci"
           /\ trail[k].arg \in ScaleLabels \ {FIBONACCI_SEQUENCE[LastPosition]})
            => trail[k + 1].ret = trail[k].arg
       /\ (/\ trail[k].fn = "getPreviousFibonacci"
           /\ trail[k + 1].fn = "getNextFibonacci"
           /\ trail[k].arg \in ScaleLabels \ {FIBONACCI_SEQUENCE[1]})
            => trail[k + 1].ret = trail[k].arg
  /\ \A k \in 1..Len(trail) :
       /\ (trail[k].fn = "getNextFibonacci"
             /\ trail[k].arg = FIBONACCI_SEQUENCE[LastPosition])
            => trail[k].ret = trail[k].arg
       /\ (trail[k].fn = "getPreviousFibonacci"
             /\ trail[k].arg = FIBONACCI_SEQUENCE[1])
            => trail[k].ret = trail[k].arg

\* next of the first label followed by previous has come back to it
C7_Witness ==
  /\ Len(trail) >= 2
  /\ trail[1].fn = "getNextFibonacci" /\ trail[1].arg = 1 /\ trail[1].ret = 2
  /\ trail[2].fn = "getPreviousFibonacci" /\ trail[2].arg = 2 /\ trail[2].ret = 1

\* C18: fibonacciToHours returns the hour value of the table for every label
\* of the scale, and for a label that is not in the table it fails with an
\* error instead of returning a default or an undefined value.  (Labels are
\* numbers, as the parameter type of the function says.)
C18_UnknownLabelFails ==
  \A k \in 1..Len(trail) :
    trail[k].fn = "fibonacciToHours" =>
      /\ trail[k].arg \in ScaleLabels =>
           /\ ~trail[k].ret.threw
           /\ trail[k].ret.hours = FIBONACCI_SCALE[trail[k].arg].hours
      /\ trail[k].arg \notin ScaleLabels => trail[k].ret.threw

\* the lookup has failed twice for the label 4, which is not in the table
C18_Witness ==
  /\ Len(trail) >= 2
  /\ \A k \in 1..2 :
       /\ trail[k].fn = "fibonacciToHours"
       /\ trail[k].arg = 4
       /\ trail[k].ret.threw

----------------------------------------------------------------------------
(* Properties of the rollup (checked under Spec)                           *)

RECURSIVE SumSeq(_)
SumSeq(xs) == IF xs = <<>> THEN 0 ELSE Head(xs) + SumSeq(Tail(xs))

\* the lists of a tree, an absent list read as the empty list
ModuleList(md) == IF IsSome(md.modules) THEN Get(md.modules) ELSE <<>>

FeatureList(mod) == IF IsSome(mod.features) THEN Get(mod.features) ELSE <<>>

SubFeatureList(feat) == IF IsSome(feat.sub_features) THEN Get(feat.sub_features) ELSE <<>>

Shifted(label, lvl) ==
  CASE lvl = "realistic" -> label
    [] lvl = "optimistic" -> OneEarlier(label)
    [] lvl = "pessimistic" -> OneLater(label)

\* hours of the estimation of a node under a scenario; nothing for a node
\* without estimation or without a label of the scale
NodeHours(node, lvl) ==
  IF IsSome(node.estimation)
       /\ Get(node.estimation).fibonacci_points \in DOMAIN FIBONACCI_SCALE
    THEN FIBONACCI_SCALE[Shifted(Get(node.estimation).fibonacci_points, lvl)].hours
    ELSE 0

\* sum over the sub-features of one feature
FeatureSubFeatureHours(feat, lvl) ==
  SumSeq([s \in 1..Len(SubFeatureList(feat)) |-> NodeHours(SubFeatureList(feat)[s], lvl)])

\* sum over all sub-features of the tree
SubFeatureHours(md, lvl) ==
  SumSeq([m \in 1..Len(ModuleList(md)) |->
    SumSeq([f \in 1..Len(FeatureList(ModuleList(md)[m])) |->
      FeatureSubFeatureHours(FeatureList(ModuleList(md)[m])[f], lvl)])])

\* sum over the estimations that feature nodes carry themselves
FeatureOwnHours(md, lvl) ==
  SumSeq([m \in 1..Len(ModuleList(md)) |->
    SumSeq([f \in 1..Len(FeatureList(ModuleList(md)[m])) |->
      NodeHours(FeatureList(ModuleList(md)[m])[f], lvl)])])

Returned == runs >= 1 /\ result.status = "ok"

\* C1: totals.original_hours is the sum of the hours of the labels of exactly
\* the sub-features that carry an estimation, totals.adjusted_hours the sum of
\* the hours of their adjusted labels; no module or feature node contributes
\* hours of its own.
C1_TotalsAreSubFeatureSums ==
  Returned =>
    /\ result.totals.original_hours = SubFeatureHours(modulesData, "realistic")
    /\ result.totals.adjusted_hours = SubFeatureHours(modulesData, level)

\* C2: every run of the rollup on the same tree, scenario and team velocity
\* returns what the first run returned.
C2_RepeatedRollupIdentical == runs >= 1 => result = firstResult

\* the rollup has run more than once on a tree that it adjusts upwards
C2_Witness ==
  /\ runs >= 2
  /\ result.status = "ok"
  /\ level = "pessimistic"
  /\ result.totals.adjusted_hours > result.totals.original_hours

\* every label present in the tree is a label of the scale (or falsy)
NoUnknownLabel(md) ==
  \A m \in 1..Len(ModuleList(md)) :
    \A f \in 1..Len(FeatureList(ModuleList(md)[m])) :
      LET feat == FeatureList(ModuleList(md)[m])[f]
          known(node) == IsSome(node.estimation) =>
                           Get(node.estimation).fibonacci_points
                             \in DOMAIN FIBONACCI_SCALE \cup {0}
      IN  /\ known(feat)
          /\ \A s \in 1..Len(SubFeatureList(feat)) : known(SubFeatureList(feat)[s])

\* some list of the tree is absent, or some sub-feature has no estimation
HasMissingSubstructure(md) ==
  \/ ~IsSome(md.modules)
  \/ \E m \in 1..Len(ModuleList(md)) :
       \/ ~IsSome(ModuleList(md)[m].features)
       \/ \E f \in 1..Len(FeatureList(ModuleList(md)[m])) :
            LET feat == FeatureList(ModuleList(md)[m])[f]
            IN  \/ ~IsSome(feat.sub_features)
                \/ \E s \in 1..Len(SubFeatureList(feat)) :
                     ~IsSome(SubFeatureList(feat)[s].estimation)

C4_CalculatedHoursAnnotated ==
  Returned =>
    \A m \in 1..Len(ModuleList(modulesData)) :
      LET mod == ModuleList(modulesData)[m]
      IN  /\ IsSome(mod.calculated_hours)
          /\ \A f \in 1..Len(FeatureList(mod)) :
               /\ IsSome(FeatureList(mod)[f].calculated_hours)
               /\ Get(FeatureList(mod)[f].calculated_hours).original =
                    FeatureSubFeatureHours(FeatureList(mod)[f], "realistic")
          /\ Get(mod.calculated_hours).original =
               SumSeq([f \in 1..Len(FeatureList(mod)) |->
                         Get(FeatureList(mod)[f].calculated_hours).original])

\* C8: estimated_sprints is totals.adjusted_hours divided by teamVelocity,
\* rounded up to one decimal place.
C8_SprintsFromAdjustedHours ==
  Returned =>
    result.totals.estimated_sprints =
      CeilTenths([num |-> result.totals.adjusted_hours, den |-> teamVelocity])

\* C9 as stated: the reported estimated_weeks is the reported
\* estimated_sprints times 2.
C9_WeeksAreTwiceReportedSprints ==
  Returned => result.totals.estimated_weeks = 2 * result.totals.estimated_sprints

\* C9, amended: the reported estimated_weeks is the reported estimated_sprints
\* times 2 or one tenth less than that (the weeks are rounded up from the
\* unrounded sprint count).
C9_WeeksWithinATenthOfTwiceSprints ==
  Returned =>
    result.totals.estimated_weeks \in
      {2 * result.totals.estimated_sprints - 1, 2 * result.totals.estimated_sprints}

\* 1 adjusted point at velocity 20: 0.1 sprints and 0.1 weeks are reported
C9_Witness ==
  /\ Returned
  /\ teamVelocity = DefaultTeamVelocity
  /\ result.totals.adjusted_points = 1
  /\ result.totals.estimated_sprints = 1
  /\ result.totals.estimated_weeks = 1

\* positions <<m, f, s>> of the sub-features that carry an estimation
EstimatedSubFeatures(md) ==
  UNION {UNION {{<<m, f, s>> :
                   s \in {t \in 1..Len(SubFeatureList(FeatureList(ModuleList(md)[m])[f])) :
                            IsSome(SubFeatureList(FeatureList(ModuleList(md)[m])[f])[t].estimation)}} :
                f \in 1..Len(FeatureList(ModuleList(md)[m]))} :
         m \in 1..Len(ModuleList(md))}

\* the trees that differ from md at most in the stored estimated_hours of
\* sub-feature estimations
HourVariants(md) ==
  {MapSubFeatures(md, LAMBDA m, f, s, sub :
     IF IsSome(sub.estimation)
       THEN [sub EXCEPT !.estimation =
               Some([Get(@) EXCEPT !.estimated_hours = h[<<m, f, s>>]])]
       ELSE sub) :
   h \in [EstimatedSubFeatures(md) -> StoredHours]}

\* C10: a tree that differs from the rolled-up tree only in the stored
\* estimated_hours of its sub-feature estimations has the same rollup output
\* (adjustments and totals).
C10_StoredHoursIgnored ==
  runs >= 1 =>
    \A twin \in HourVariants(modulesData) :
      calculateModuleEstimation(twin, level, teamVelocity).result = result

\* the rollup counted two sub-features whose stored hours (5 each) are not
\* the hours of their labels, and a tree with other stored hours exists
C10_Witness ==
  /\ Returned
  /\ Cardinality(EstimatedSubFeatures(modulesData)) = 2
  /\ Cardinality(HourVariants(modulesData)) > 1
  /\ result.totals.original_hours = 22

\* some sub-feature has an estimation whose label is not in FIBONACCI_SCALE
HasUnknownSubFeatureLabel(md) ==
  \E m \in 1..Len(ModuleList(md)) :
    \E f \in 1..Len(FeatureList(ModuleList(md)[m])) :
      \E s \in 1..Len(SubFeatureList(FeatureList(ModuleList(md)[m])[f])) :
        LET sub == SubFeatureList(FeatureList(ModuleList(md)[m])[f])[s]
        IN  /\ IsSome(sub.estimation)
            /\ Get(sub.estimation).fibonacci_points \notin DOMAIN FIBONACCI_SCALE

\* C19: when the estimation of a sub-feature holds a label that is not in the
\* scale, the rollup fails towards its caller, under every scenario; it does
\* not skip the sub-feature and does not give it default hours.
C19_UnknownSubFeatureLabelSurfaced ==
  (runs >= 1 /\ HasUnknownSubFeatureLabel(modulesData)) => result.status = "TypeError"

----------------------------------------------------------------------------
(* The qualitative scale (checked under Spec)                              *)

\* the tree has one module with one feature with one sub-feature, and that
\* sub-feature is sized M by tshirt_size alone (no fibonacci_points)
SingleSubFeatureSizedM(md) ==
  /\ Len(ModuleList(md)) = 1
  /\ Len(FeatureList(ModuleList(md)[1])) = 1
  /\ ~IsSome(FeatureList(ModuleList(md)[1])[1].estimation)
  /\ Len(SubFeatureList(FeatureList(ModuleList(md)[1])[1])) = 1
  /\ LET sub == SubFeatureList(FeatureList(ModuleList(md)[1])[1])[1]
     IN  /\ IsSome(sub.estimation)
         /\ Get(sub.estimation).tshirt_size = "M"
         /\ Get(sub.estimation).fibonacci_points = 0

\* hours of the label one step from M on XS(0.5h) S(1h) M(2h) L(4h) XL(8h)
\* XXL(16h): L under pessimistic, S under optimistic, M under realistic
HoursOfAdjustedM(lvl) ==
  CASE lvl = "pessimistic" -> 4
    [] lvl = "optimistic" -> 1
    [] lvl = "realistic" -> 2

\* C21: the rollup of a tree whose single sub-feature is sized M by
\* tshirt_size reports that sub-feature with the hours of its adjusted label:
\* 4 hours (L) under pessimistic, 1 hour (S) under optimistic, 2 hours (M)
\* under realistic.
C21_SizeMAdjustedOnQualitativeScale ==
  (runs >= 1 /\ SingleSubFeatureSizedM(modulesData)) =>
    LET sub == SubFeatureList(FeatureList(ModuleList(modulesData)[1])[1])[1]
    IN  /\ result.status = "ok"
        /\ sub.id \in DOMAIN result.adjustments
        /\ result.adjustments[sub.id].adjusted_hours = HoursOfAdjustedM(level)
        /\ result.totals.adjusted_hours = HoursOfAdjustedM(level)

----------------------------------------------------------------------------
(* The realistic scenario (checked under Spec)                             *)

\* C22: under the realistic scenario every adjustment entry has its adjusted
\* label equal to its original label and adjusted_hours equal to
\* original_hours, and the totals of adjusted points and hours equal the
\* totals of original points and hours.
C22_RealisticIsIdentity ==
  (Returned /\ level = "realistic") =>
    /\ \A i \in DOMAIN result.adjustments :
         /\ result.adjustments[i].adjusted_points = result.adjustments[i].original_points
         /\ result.adjustments[i].adjusted_hours = result.adjustments[i].original_hours
    /\ result.totals.adjusted_points = result.totals.original_points
    /\ result.totals.adjusted_hours = result.totals.original_hours

\* a realistic rollup that recorded two entries, one for label 1 and one for
\* label 8 (2 + 20 hours)
C22_Witness ==
  /\ Returned
  /\ level = "realistic"
  /\ DOMAIN result.adjustments = {"a", "b"}
  /\ {result.adjustments[i].original_points : i \in {"a", "b"}} = {1, 8}
  /\ result.totals.original_hours = 22

----------------------------------------------------------------------------
(* getEstimationSummary next to the rollup: a caller holds a tree, runs    *)
(* the rollup on it and asks for summaries of totals of its choice, with   *)
(* the team velocity of the rollup.  The calls are recorded in trail.      *)

\* export function getEstimationSummary(totalPoints, totalHours, teamVelocity)
getEstimationSummary(totalPoints, totalHours, velocity) ==
  LET sprints == [num |-> totalPoints, den |-> velocity]
      weeks == [num |-> sprints.num * 2, den |-> sprints.den]
  IN  [points |-> totalPoints,
       hours |-> totalHours,
       sprints |-> CeilTenths(sprints),
       weeks |-> CeilTenths(weeks),
       team_velocity |-> velocity]

\* totals a caller asks a summary for
SummaryTotals == {1, 2, 20}

SummaryTrees == {StoreTree(1), StoreTree(8), [modules |-> None]}

InitSummary ==
  /\ modulesData \in SummaryTrees
  /\ level \in OptimisticLevel
  /\ teamVelocity \in TeamVelocities
  /\ result = NoResult
  /\ firstResult = NoResult
  /\ runs = 0
  /\ current = 1
  /\ trail = <<>>
  /\ StoreIdle
  /\ GenIdle

Summarize ==
  /\ Len(trail) < MaxSteps
  /\ \E totalPoints \in SummaryTotals, totalHours \in SummaryTotals :
       trail' = Append(trail,
                  [fn |-> "getEstimationSummary",
                   lvl |-> "none",
                   arg |-> [totalPoints |-> totalPoints,
                            totalHours |-> totalHours,
                            teamVelocity |-> teamVelocity],
                   ret |-> getEstimationSummary(totalPoints, totalHours, teamVelocity)])
  /\ UNCHANGED <<rollupVars, current, storeVars, genVars>>

NextSummary == Rollup \/ Summarize

SpecSummary == InitSummary /\ [][NextSummary]_vars

\* C23: a summary asked for the total of hours that equals the adjusted-hours
\* total of the rolled-up tree, with the team velocity of the rollup, has the
\* sprints and weeks that the rollup reports as estimated_sprints and
\* estimated_weeks.
C23_SummaryEqualsRollupOfSameHours ==
  Returned =>
    \A i \in 1..Len(trail) :
      trail[i].arg.totalHours = result.totals.adjusted_hours =>
        /\ trail[i].ret.sprints = result.totals.estimated_sprints
        /\ trail[i].ret.weeks = result.totals.estimated_weeks

----------------------------------------------------------------------------
(* The adjustments map (checked under Spec)                                *)

\* the sub-feature at position <<m, f, s>>
SubFeatureAt(md, pos) ==
  SubFeatureList(FeatureList(ModuleList(md)[pos[1]])[pos[2]])[pos[3]]

\* C24: the adjustments map of a rollup has exactly one entry per sub-feature
\* that carries an estimation: as many entries as such sub-features, every
\* entry keyed by the id of one of them, and the entry of a sub-feature holds
\* its original label, adjusted label, original hours and adjusted hours.
C24_OneEntryPerEstimatedSubFeature ==
  Returned =>
    /\ Cardinality(DOMAIN result.adjustments) =
         Cardinality(EstimatedSubFeatures(modulesData))
    /\ \A i \in DOMAIN result.adjustments :
         \E pos \in EstimatedSubFeatures(modulesData) :
           SubFeatureAt(modulesData, pos).id = i
    /\ \A pos \in EstimatedSubFeatures(modulesData) :
         LET sub == SubFeatureAt(modulesData, pos)
         IN  /\ sub.id \in DOMAIN result.adjustments
             /\ result.adjustments[sub.id].original_points =
                  Get(sub.estimation).fibonacci_points
             /\ result.adjustments[sub.id].adjusted_points =
                  Shifted(Get(sub.estimation).fibonacci_points, level)
             /\ result.adjustments[sub.id].original_hours = NodeHours(sub, "realistic")
             /\ result.adjustments[sub.id].adjusted_hours = NodeHours(sub, level)

----------------------------------------------------------------------------
(* Order of the scenarios (checked under Spec)                             *)

\* C25: the hours of the scale do not decrease along FIBONACCI_SEQUENCE, and
\* for every tree the adjusted hours of an optimistic rollup are at most the
\* original hours and those of a pessimistic rollup at least the original
\* hours, in every adjustment entry and in the totals.
C25_ScenariosOrdered ==
  /\ \A i \in 1..(Len(FIBONACCI_SEQUENCE) - 1) :
       FIBONACCI_SCALE[FIBONACCI_SEQUENCE[i]].hours
         <= FIBONACCI_SCALE[FIBONACCI_SEQUENCE[i + 1]].hours
  /\ (Returned /\ level = "optimistic") =>
       /\ \A i \in DOMAIN result.adjustments :
            result.adjustments[i].adjusted_hours <= result.adjustments[i].original_hours
       /\ result.totals.adjusted_hours <= result.totals.original_hours
  /\ (Returned /\ level = "pessimistic") =>
       /\ \A i \in DOMAIN result.adjustments :
            result.adjustments[i].adjusted_hours >= result.adjustments[i].original_hours
       /\ result.totals.adjusted_hours >= result.totals.original_hours

\* an optimistic rollup of labels 1 and 8: label 1 stays (2 hours), label 8
\* becomes 5 (20 hours down to 14)
C25_Witness ==
  /\ Returned
  /\ level = "optimistic"
  /\ DOMAIN result.adjustments = {"a", "b"}
  /\ result.totals.original_hours = 22
  /\ result.totals.adjusted_hours = 16

----------------------------------------------------------------------------
(* Version numbers (checked under SpecApi: one request after the other)    *)

VersionNumbers(versions, p) == {v.version : v \in versionsOf(versions, p)}

\* the highest version number of the project, 0 when it has no version
HighestVersionNumber(versions, p) ==
  CHOOSE n \in VersionNumbers(versions, p) \cup {0} :
    \A k \in VersionNumbers(versions, p) : k <= n

\* C26: with requests served one after the other, the version numbers of a
\* project are pairwise distinct and are exactly 1..n for its n versions, and
\* every version that a create-version or apply request adds gets the highest
\* number the project had, plus one.
C26_VersionNumbersAreOneToN ==
  /\ [](\A p \in Projects :
         /\ VersionNumbers(moduleVersions, p) =
              1..Cardinality(versionsOf(moduleVersions, p))
         /\ \A v, w \in versionsOf(moduleVersions, p) :
              v.version = w.version => v = w)
  /\ [][\A v \in moduleVersions' :
          (v.id \notin {w.id : w \in moduleVersions}) =>
            v.version = HighestVersionNumber(moduleVersions, v.projectId) + 1]_vars

\* the project got versions 2 and 3 from an apply and a create-version
\* request, in addition to the version 1 it had
C26_Witness ==
  /\ VersionNumbers(moduleVersions, "p1") = {1, 2, 3}
  /\ \E v, w \in versionsOf(moduleVersions, "p1") :
       /\ v.version > 1 /\ w.version > 1
       /\ IsSome(v.optimisticLevel)
       /\ ~IsSome(w.optimisticLevel)

----------------------------------------------------------------------------
(* Failed requests (checked under SpecApi)                                 *)

\* the id of the version that a running apply or create-version handler has
\* inserted, if it has inserted one
InsertedBy(h) ==
  IF h.kind = "apply" THEN h.newModuleVersion
  ELSE IF h.kind = "create" THEN h.newVersion
  ELSE None

\* C27: when an apply or create-version request is answered with an error,
\* the project has no version from that request and the active-version
\* pointer is as it was, also when the pointer update is what failed.
C27_FailedRequestLeavesNoTrace ==
  [][\A c \in Clients :
       ((Answers(c, "apply") \/ Answers(c, "create")) /\ responses'[c].status # 200) =>
         /\ moduleVersions' = moduleVersions
         /\ activeVersionId' = activeVersionId
         /\ \A v \in moduleVersions' : Some(v.id) # InsertedBy(handlers[c])]_vars

----------------------------------------------------------------------------
(* The active version as the handlers read it (checked under SpecActive)   *)

\* C28: the activeVersion that GET /api/projects/[id] returns is the version
\* the active-version pointer of the project designates, and an apply request
\* sent without a versionId computes from that version.
C28_ActiveVersionIsThePointer ==
  [][\A c \in Clients :
       /\ Answers(c, "project") => responses'[c].version = activeVersionId["p1"]
       /\ (/\ handlers[c] = IdleHandler
           /\ handlers'[c].kind = "apply"
           /\ ~IsSome(handlers'[c].body.versionId)) =>
            Some(handlers'[c].moduleVersion.id) = activeVersionId["p1"]]_vars

----------------------------------------------------------------------------
(* State machine of one call of generateWithRetry (src/unnamed/part_001).  *)
(* Every attempt starts a request (generateSingleRequest) and awaits it    *)
(* through withTimeout: Promise.race of the request and a 120-second       *)
(* timer.  The race only stops the waiting; a request whose timer has      *)
(* fired runs on until it ends by itself.                                  *)

\* values of maxRetries: the default and the smaller positive integers
RetryLimits == 1..DefaultMaxRetries

\* generateSingleRequest has been called: its first await is the call that
\* creates the assistant
NewRequest == [pc |-> "creating", assistant |-> "none", outcome |-> "pending"]

\* the promise of the request is pending
InFlight(request) == request.pc # "finished"

InitRetry ==
  /\ modulesData = [modules |-> None]
  /\ level = "realistic"
  /\ teamVelocity = DefaultTeamVelocity
  /\ result = NoResult
  /\ firstResult = NoResult
  /\ runs = 0
  /\ current = 1
  /\ trail = <<>>
  /\ StoreIdle
  /\ genPc = "idle"
  /\ apiKey = FALSE
  /\ modulesOverview = None
  /\ moduleIndex = 0
  /\ detailedModules = <<>>
  /\ failedModules = <<>>
  /\ genResult = None
  /\ retryPc = "called"
  /\ maxRetries \in RetryLimits
  /\ attempt = 0
  /\ requests = <<>>
  /\ attemptLog = <<>>
  /\ retryOutcome = None

\* the rest of the module does not move during the call
RetryFrame ==
  UNCHANGED <<rollupVars, navVars, storeVars, genPc, apiKey, modulesOverview,
              moduleIndex, detailedModules, failedModules, genResult, maxRetries>>

\* a catch block that rethrows the first error
catchRethrowsAtOnce(outcome, n, limit) ==
  IF outcome = "success" THEN "return" ELSE "throw"

\* what the loop body does with the end of attempt n: return await ... on
\* success; in the catch, throw on the last attempt, otherwise back off and
\* go round again
catch(outcome, n, limit) ==
  IF outcome = "success" THEN "return"
  ELSE IF n = limit THEN "throw"
  ELSE "retry"

\* the loop is entered, or the backoff timer fires and attempt++ passes the
\* loop condition: the next request is started and awaited
StartAttempt ==
  /\ retryPc \in {"called", "backoff"}
  /\ attempt + 1 <= maxRetries
  /\ attempt' = attempt + 1
  /\ requests' = Append(requests, NewRequest)
  /\ retryPc' = "awaiting"
  /\ UNCHANGED <<attemptLog, retryOutcome>>
  /\ RetryFrame

\* the awaited promise has settled with this outcome
AttemptEnds(outcome) ==
  /\ attemptLog' = Append(attemptLog, outcome)
  /\ \E decision \in {catch(outcome, attempt, maxRetries)} :
       /\ retryPc' = CASE decision = "return" -> "returned"
                      [] decision = "throw" -> "threw"
                      [] decision = "retry" -> "backoff"
       /\ retryOutcome' =
            IF decision = "retry" THEN retryOutcome
            ELSE Some([kind |-> decision, attempt |-> attempt, with |-> outcome])
  /\ UNCHANGED <<attempt, requests>>
  /\ RetryFrame

\* the request of the current attempt has ended before the timer fired: the
\* race settles with its value or its error
AttemptSettles ==
  /\ retryPc = "awaiting"
  /\ ~InFlight(requests[attempt])
  /\ AttemptEnds(requests[attempt].outcome)

\* the 120-second timer fires while the request is still running: the race
\* rejects with 'Operation timed out'; nothing stops the request
AttemptTimesOut ==
  /\ retryPc = "awaiting"
  /\ InFlight(requests[attempt])
  /\ AttemptEnds("Operation timed out")

\* the request goes on: this step applies to the request of the current
\* attempt and to earlier requests that are still running
RequestStep(k, request) ==
  /\ requests' = [requests EXCEPT ![k] = request]
  /\ UNCHANGED <<retryPc, attempt, attemptLog, retryOutcome>>
  /\ RetryFrame

\* openai.beta.assistants.create returns, or throws (then nothing is to be
\* cleaned up)
AssistantCreate(k) ==
  /\ requests[k].pc = "creating"
  /\ \/ RequestStep(k, [pc |-> "running", assistant |-> "created",
                        outcome |-> "pending"])
     \/ RequestStep(k, [pc |-> "finished", assistant |-> "none",
                        outcome |-> "error"])

\* thread, run and polling end: with the parsed JSON, or with an error (run
\* not completed, wait exceeded, no valid response, invalid JSON, API error)
RunEnds(k) ==
  /\ requests[k].pc = "running"
  /\ \E outcome \in {"success", "error"} :
       RequestStep(k, [requests[k] EXCEPT !.pc = "cleanup", !.outcome = outcome])

\* finally: openai.beta.assistants.delete returns, or throws and the error
\* is only logged; then the promise of the request settles
CleanUp(k) ==
  /\ requests[k].pc = "cleanup"
  /\ \/ RequestStep(k, [requests[k] EXCEPT !.pc = "finished", !.assistant = "deleted"])
     \/ RequestStep(k, [requests[k] EXCEPT !.pc = "finished", !.assistant = "left"])

NextRetry ==
  \/ StartAttempt
  \/ AttemptSettles
  \/ AttemptTimesOut
  \/ \E k \in 1..Len(requests) : AssistantCreate(k)
  \/ \E k \in 1..Len(requests) : RunEnds(k)
  \/ \E k \in 1..Len(requests) : CleanUp(k)

SpecRetry == InitRetry /\ [][NextRetry]_vars

\* the timers of withTimeout and of the backoff fire, and a settled promise
\* resumes the loop
SpecRetryLive ==
  /\ SpecRetry
  /\ WF_vars(StartAttempt)
  /\ WF_vars(AttemptSettles \/ AttemptTimesOut)

----------------------------------------------------------------------------
(* Properties of generateWithRetry                                         *)

RetryEnded == retryPc \in {"returned", "threw"}

\* C29: generateWithRetry starts at most maxRetries attempts; when it returns,
\* the current attempt is the first that succeeded and its result is what is
\* returned; when it throws, all maxRetries attempts have failed or timed out
\* and the error of the last one is what is thrown; after either, no further
\* attempt is started; and every call returns or throws in the end.
C29_RetryIsBoundedAndTerminates ==
  /\ [](Len(requests) = attempt /\ attempt <= maxRetries)
  /\ [](retryPc = "returned" =>
          /\ attemptLog[attempt] = "success"
          /\ \A k \in 1..(attempt - 1) : attemptLog[k] # "success"
          /\ requests[attempt].outcome = "success"
          /\ retryOutcome =
               Some([kind |-> "return", attempt |-> attempt, with |-> "success"]))
  /\ [](retryPc = "threw" =>
          /\ attempt = maxRetries
          /\ Len(attemptLog) = maxRetries
          /\ \A k \in 1..maxRetries : attemptLog[k] # "success"
          /\ retryOutcome =
               Some([kind |-> "throw", attempt |-> maxRetries,
                     with |-> attemptLog[maxRetries]]))
  /\ [][RetryEnded =>
          UNCHANGED <<retryPc, attempt, attemptLog, retryOutcome>>
            /\ Len(requests') = Len(requests)]_vars
  /\ <>RetryEnded

\* the call returned the result of its third attempt, after one attempt that
\* failed and one that timed out
C29_Witness ==
  /\ retryPc = "returned"
  /\ maxRetries = DefaultMaxRetries
  /\ attempt = 3
  /\ {attemptLog[1], attemptLog[2]} = {"error", "Operation timed out"}

\* the call threw the timeout of its third and last attempt
C29_WitnessThrew ==
  /\ retryPc = "threw"
  /\ maxRetries = DefaultMaxRetries
  /\ attemptLog[3] = "Operation timed out"

\* requests whose promise is pending
RequestsInFlight == {k \in 1..Len(requests) : InFlight(requests[k])}

\* C30: at most one request of generateWithRetry is in flight at any time;
\* when an attempt starts, the request of every earlier attempt has finished
\* and its assistant is deleted (or was never created), also when the
\* earlier attempt ended by the timeout.
C30_OneRequestInFlight ==
  /\ [](Cardinality(RequestsInFlight) <= 1)
  /\ [][Len(requests') > Len(requests) =>
          \A k \in 1..Len(requests) :
            /\ ~InFlight(requests[k])
            /\ requests[k].assistant \in {"none", "deleted"}]_vars

====
